---- MODULE Spec2Model ----
(***************************************************************************)
(* Playlist analysis of P.R.A.U.M: the data extractor (data_extractor.py), *)
(* the authentication step (auth.py) and the playlist analyzer             *)
(* (analyzer.py).                                                          *)
(*                                                                         *)
(* Numbers.  A Python float is modelled exactly: a feature value on the    *)
(* scale 0..1 is an integer count of hundredths (0.7 is 70, 0.66 is 66), a *)
(* tempo is an integer of BPM, a duration an integer of milliseconds, and  *)
(* a mean is the exact quotient [n |-> sum, d |-> count] of such values.   *)
(* NaN is a value of its own.  Binary rounding of float arithmetic is not  *)
(* modelled.                                                               *)
(***************************************************************************)
EXTENDS Integers, Sequences, FiniteSets, TLC

VARIABLES
  features_mean,  \* classifier: the feature-means map handed to _determine_mood
  moods,          \* classifier: the returns of the successive calls on that map
  analyses,       \* classifier: analyses the analyzer performed so far
  last_mood,      \* classifier: the label the latest other analysis returned
  df,             \* the track collection (DataFrame) under analysis, or None
  profile,        \* what analyze_playlist returned for df, NotRun before it ran
  pc,             \* the API call the running entry point is about to make
  op,             \* the entry point the caller invoked
  stage,          \* 1: generate_report's own extraction, 2: analyze_playlist's
  runs,           \* entry-point calls made so far
  playlists,      \* get_user_playlists: the dict name -> id built so far
  playlist_id,    \* get_playlist_dataframe: playlists[playlist_name]
  tracks,         \* get_playlist_tracks: the list of track dicts built so far
  pages,          \* pages the running loop has fetched
  batch_at,       \* get_audio_features_batch: the loop index i
  audio_features, \* get_audio_features_batch: the list built so far
  report_df,      \* generate_report: the DataFrame of its own extraction
  result,         \* what the entry point returned to the caller
  failed,         \* the API calls that raised in the running extraction
  served,         \* the ids of the non-null tracks the API served in it, in order
  calls           \* get_playlist_tracks: how each of its API calls ended, in
                  \* order, kept until the list it returned is used

mood_vars == <<features_mean, moods, analyses, last_mood>>

profile_vars == <<df, profile>>

extract_vars ==
  <<pc, op, stage, runs, playlists, playlist_id, tracks, pages, batch_at,
    audio_features, report_df, result, failed, served, calls>>

vars == <<mood_vars, profile_vars, extract_vars>>

----------------------------------------------------------------------------
(* Bounds of the model.                                                    *)

MaxCalls == 2      \* calls of _determine_mood on the map under study
MaxBetween == 2    \* other analyses performed around those calls
MaxArtistTracks == 6   \* tracks of a collection drawn for its artists
MaxFeatureTracks == 3  \* tracks of a collection drawn for its features
MaxRuns == 2       \* calls of analyze_playlist / generate_report by the caller
MaxPages == 2      \* pages the API serves for one listing
MaxItems == 2      \* playlist items the API serves for one playlist, over all pages

----------------------------------------------------------------------------
(* Numbers.                                                                *)

NaN == [nan |-> TRUE]

Num(v) == [n |-> v, d |-> 1]

IsNaN(x) == "nan" \in DOMAIN x

(* x > t and x < t for a float x and a literal t; every comparison with    *)
(* NaN is false.                                                           *)
Gt(x, t) == ~IsNaN(x) /\ x.n > t * x.d

Lt(x, t) == ~IsNaN(x) /\ x.n < t * x.d

----------------------------------------------------------------------------
(* config/settings.py                                                      *)

AUDIO_FEATURES ==
  << "danceability", "energy", "valence", "acousticness",
     "instrumentalness", "liveness", "speechiness", "tempo" >>

----------------------------------------------------------------------------
(* analyzer.py: PlaylistAnalyzer._determine_mood                           *)

(* dict.get(k, default) with a default of 1.0: Get with a fault seeded.    *)
GetMissingAsOne(m, k, default) == IF k \in DOMAIN m THEN m[k] ELSE Num(100)

(* dict.get(k, default)                                                    *)
Get(m, k, default) == IF k \in DOMAIN m THEN m[k] ELSE default

(* The rule list with the valence rules moved to the front: mood_rules     *)
(* with a fault seeded.                                                    *)
mood_rules_valence_first(fm) ==
  << << Gt(Get(fm, "valence", Num(0)), 70), "Feliz/Positiva" >>,
     << Lt(Get(fm, "valence", Num(0)), 30), "Melancólica/Triste" >>,
     << Gt(Get(fm, "energy", Num(0)), 70) /\ Gt(Get(fm, "danceability", Num(0)), 70),
        "Energética/Dançante" >>,
     << Lt(Get(fm, "energy", Num(0)), 30) /\ Gt(Get(fm, "acousticness", Num(0)), 70),
        "Calma/Acústica" >>,
     << Gt(Get(fm, "instrumentalness", Num(0)), 70), "Instrumental" >>,
     << Gt(Get(fm, "speechiness", Num(0)), 66), "Falada/Poética" >> >>

(* The list of (condition, mood) pairs, every condition evaluated when the *)
(* list is built.                                                          *)
mood_rules(fm) ==
  << << Gt(Get(fm, "energy", Num(0)), 70) /\ Gt(Get(fm, "danceability", Num(0)), 70),
        "Energética/Dançante" >>,
     << Lt(Get(fm, "energy", Num(0)), 30) /\ Gt(Get(fm, "acousticness", Num(0)), 70),
        "Calma/Acústica" >>,
     << Gt(Get(fm, "valence", Num(0)), 70), "Feliz/Positiva" >>,
     << Lt(Get(fm, "valence", Num(0)), 30), "Melancólica/Triste" >>,
     << Gt(Get(fm, "instrumentalness", Num(0)), 70), "Instrumental" >>,
     << Gt(Get(fm, "speechiness", Num(0)), 66), "Falada/Poética" >> >>

(* for condition, mood in mood_rules: if condition: return mood            *)
RECURSIVE first_true(_, _)
first_true(rules, i) ==
  IF i > Len(rules) THEN "Mista/Equilibrada"
  ELSE IF rules[i][1] THEN rules[i][2]
  ELSE first_true(rules, i + 1)

(* A classifier that answers with the label of the latest analysis once    *)
(* one was performed: _determine_mood with a fault seeded.                 *)
_determine_mood_remembered(fm) ==
  IF analyses > 0 THEN last_mood ELSE first_true(mood_rules(fm), 1)

_determine_mood(fm) == first_true(mood_rules(fm), 1)

----------------------------------------------------------------------------
(* pandas values as analyzer.py uses them.  A track is the dict built by   *)
(* get_playlist_tracks: a function from its keys to their values.  Of its  *)
(* keys the model keeps id, name, artist, duration_ms and popularity (the  *)
(* ones read after the dict is built) and the audio features copied onto   *)
(* it; artist_id, album, album_id, duration_formatted, track_number and    *)
(* explicit are written once and never read.                               *)

None == [kind |-> "None"]

NotRun == [kind |-> "NotRun"]

(* No entry point was called yet.                                          *)
ExtractIdle ==
  /\ pc = "idle"
  /\ op = "none"
  /\ stage = 0
  /\ runs = 0
  /\ playlists = << >>
  /\ playlist_id = "none"
  /\ tracks = << >>
  /\ pages = 0
  /\ batch_at = 0
  /\ audio_features = << >>
  /\ report_df = None
  /\ result = NotRun
  /\ failed = {}
  /\ served = << >>
  /\ calls = << >>

RECURSIVE KeysOf(_)
KeysOf(rows) ==
  IF rows = << >> THEN {} ELSE DOMAIN rows[1] \cup KeysOf(Tail(rows))

(* pd.DataFrame(tracks) followed by df['playlist_name'] = playlist_name:   *)
(* one row per dict in list order, one column per key of any dict.         *)
DataFrame(dicts, name) ==
  [ kind |-> "DataFrame",
    columns |-> KeysOf(dicts) \cup {"playlist_name"},
    rows |-> dicts,
    playlist_name |-> name ]

(* df.empty                                                                *)
empty(d) == d.rows = << >> \/ d.columns = {}

(* A count of the rows that carry audio features: len with a fault seeded. *)
len_with_features(d) ==
  Len(SelectSeq(d.rows, LAMBDA r : "energy" \in DOMAIN r))

(* len(df)                                                                 *)
len(d) == Len(d.rows)

(* df[c] as a sequence of cells; a cell of a row whose dict lacks the key  *)
(* is NaN.                                                                 *)
Column(d, c) ==
  [i \in DOMAIN d.rows |->
     IF c \in DOMAIN d.rows[i] THEN d.rows[i][c] ELSE NaN]

(* The numeric cells of df[c] as floats.                                   *)
NumColumn(d, c) ==
  [i \in DOMAIN d.rows |->
     IF c \in DOMAIN d.rows[i] THEN Num(d.rows[i][c]) ELSE NaN]

(* The cells a reduction keeps under skipna=True.                          *)
Present(col) == SelectSeq(col, LAMBDA x : ~IsNaN(x))

RECURSIVE SumOf(_)
SumOf(col) == IF col = << >> THEN 0 ELSE col[1].n + SumOf(Tail(col))

(* A mean that counts a missing cell as 0: Mean with a fault seeded.       *)
MeanImputed(col) ==
  IF col = << >> THEN NaN ELSE [n |-> SumOf(Present(col)), d |-> Len(col)]

(* Series.mean(): skipna=True, NaN when no cell is present.                *)
Mean(col) ==
  LET p == Present(col)
  IN  IF p = << >> THEN NaN ELSE [n |-> SumOf(p), d |-> Len(p)]

(* The sum over the present cells of (c*x - S)^2, c the count and S the    *)
(* sum: c^2 times the sum of squared deviations from the mean.             *)
RECURSIVE ScaledSquares(_, _, _)
ScaledSquares(p, c, S) ==
  IF p = << >> THEN 0
  ELSE (c * p[1].n - S) * (c * p[1].n - S) + ScaledSquares(Tail(p), c, S)

(* The square root, kept symbolic: Sqrt(q) is the float whose square is q. *)
Sqrt(q) == [sqrt_of |-> q]

(* A standard deviation with ddof=0: Std with a fault seeded.              *)
StdPopulation(col) ==
  LET p == Present(col)
      c == Len(p)
  IN  IF c < 1 THEN NaN
      ELSE Sqrt([n |-> ScaledSquares(p, c, SumOf(p)), d |-> c * c * c])

(* Series.std(): skipna=True, ddof=1; NaN when count - ddof <= 0.          *)
Std(col) ==
  LET p == Present(col)
      c == Len(p)
  IN  IF c - 1 <= 0 THEN NaN
      ELSE Sqrt([n |-> ScaledSquares(p, c, SumOf(p)), d |-> c * c * (c - 1)])

(* Div with a fault seeded: the divisor of a conversion to seconds.        *)
DivSeconds(x, k) == IF IsNaN(x) THEN NaN ELSE [n |-> x.n, d |-> x.d * 1000]

(* x / k for a float x and a positive integer literal k.                   *)
Div(x, k) == IF IsNaN(x) THEN NaN ELSE [n |-> x.n, d |-> x.d * k]

Values(col) == {col[i] : i \in DOMAIN col}

(* Series.nunique() of a text column.  Every track dict carries the key   *)
(* artist, so the column has no missing cell for dropna to drop.           *)
nunique(col) == Cardinality(Values(col))

CountOf(col, v) == Len(SelectSeq(col, LAMBDA x : x = v))

(* The orders in which a descending sort by count can leave the values of  *)
(* S: at every position one of the values of highest count.                *)
RECURSIVE SortedByCount(_, _)
SortedByCount(col, S) ==
  IF S = {} THEN {<< >>}
  ELSE LET top == {v \in S : \A w \in S : CountOf(col, v) >= CountOf(col, w)}
       IN  UNION { { << <<v, CountOf(col, v)>> >> \o rest :
                       rest \in SortedByCount(col, S \ {v}) } : v \in top }

(* The values in the order of their first occurrence, unsorted: what a     *)
(* value_counts(sort=False) gives: value_counts with a fault seeded.       *)
RECURSIVE FirstSeen(_, _)
FirstSeen(col, seen) ==
  IF col = << >> THEN << >>
  ELSE IF col[1] \in seen THEN FirstSeen(Tail(col), seen)
  ELSE << col[1] >> \o FirstSeen(Tail(col), seen \cup {col[1]})

value_counts_unsorted(col) ==
  { [i \in DOMAIN FirstSeen(col, {}) |->
       << FirstSeen(col, {})[i], CountOf(col, FirstSeen(col, {})[i]) >>] }

(* Series.value_counts() of a text column: (value, count) pairs sorted by  *)
(* descending count with Series.sort_values' default kind, quicksort,      *)
(* which is not a stable sort: the order among equal counts is whatever    *)
(* the build's sort leaves, so every such order is a possible result.      *)
value_counts(col) == SortedByCount(col, Values(col))

(* Series.head(n)                                                          *)
head(s, n) == SubSeq(s, 1, IF Len(s) < n THEN Len(s) ELSE n)

----------------------------------------------------------------------------
(* analyzer.py: PlaylistAnalyzer.analyze_playlist, from the DataFrame on   *)

(* The recognized features that are columns of df.                         *)
FeatureColumns(d) ==
  {AUDIO_FEATURES[i] : i \in DOMAIN AUDIO_FEATURES} \cap d.columns

(* The profile built from a non-empty df; vc is the result of              *)
(* df['artist'].value_counts().                                            *)
PlaylistProfile(name, d, vc) ==
  LET fm == [f \in FeatureColumns(d) |-> Mean(NumColumn(d, f))]
  IN  [ kind |-> "PlaylistProfile",
        name |-> name,
        track_count |-> len(d),
        unique_artists |-> nunique(Column(d, "artist")),
        avg_duration |-> Div(Mean(NumColumn(d, "duration_ms")), 60000),
        avg_popularity |-> Mean(NumColumn(d, "popularity")),
        features_mean |-> fm,
        features_std |-> [f \in FeatureColumns(d) |-> Std(NumColumn(d, f))],
        top_artists |-> head(vc, 5),
        audio_mood |-> _determine_mood(fm) ]

(* The profile of no tracks, every number zero.                            *)
ZeroProfile(name) ==
  [ kind |-> "PlaylistProfile",
    name |-> name,
    track_count |-> 0,
    unique_artists |-> 0,
    avg_duration |-> Num(0),
    avg_popularity |-> Num(0),
    features_mean |-> << >>,
    features_std |-> << >>,
    top_artists |-> << >>,
    audio_mood |-> _determine_mood(<< >>) ]

(* An analyze_playlist without the check of df: analyze_playlist_results   *)
(* with a fault seeded.                                                    *)
analyze_playlist_results_unchecked(name, d) ==
  IF d = None \/ empty(d) THEN {ZeroProfile(name)}
  ELSE { PlaylistProfile(name, d, vc) :
           vc \in value_counts(Column(d, "artist")) }

(* The results analyze_playlist can return once extract_playlist_data      *)
(* returned d.                                                             *)
analyze_playlist_results(name, d) ==
  IF d = None \/ empty(d) THEN {None}
  ELSE { PlaylistProfile(name, d, vc) :
           vc \in value_counts(Column(d, "artist")) }

----------------------------------------------------------------------------
(* The classifier on its own: the map is drawn from per-feature value sets *)
(* that straddle every threshold; a key may be absent.                     *)

Absent == [absent |-> TRUE]

Floats(S) == {Num(v) : v \in S}

MoodValues ==
  [ energy           |-> {Absent} \cup Floats({20, 30, 50, 70, 90}),
    danceability     |-> {Absent} \cup Floats({70, 90}),
    acousticness     |-> {Absent} \cup Floats({70, 90}),
    valence          |-> {Absent} \cup Floats({20, 30, 50, 70, 90}),
    instrumentalness |-> {Absent} \cup Floats({70, 90}),
    speechiness      |-> {Absent} \cup Floats({66, 68}) ]

(* The dict with the chosen keys: absent keys are not in its domain.       *)
MapOf(choice) ==
  LET keys == {k \in DOMAIN choice : choice[k] # Absent}
  IN  [k \in keys |-> choice[k]]

(* Every recognized feature at 0.5.                                        *)
AllHalf ==
  [k \in {AUDIO_FEATURES[i] : i \in DOMAIN AUDIO_FEATURES} |-> Num(50)]

MoodInputs ==
  { MapOf(c) : c \in [ energy : MoodValues.energy,
                       danceability : MoodValues.danceability,
                       acousticness : MoodValues.acousticness,
                       valence : MoodValues.valence,
                       instrumentalness : MoodValues.instrumentalness,
                       speechiness : MoodValues.speechiness ] }
  \cup {AllHalf}

(* The maps of the analyses performed in between.                          *)
OtherInputs ==
  { [energy |-> Num(90), danceability |-> Num(90), valence |-> Num(90)],
    [energy |-> Num(50), valence |-> Num(50)] }

NoMood == "none"

MoodIdle ==
  /\ moods = << >>
  /\ analyses = 0
  /\ last_mood = NoMood

InitMood ==
  /\ features_mean \in MoodInputs
  /\ MoodIdle
  /\ df = None
  /\ profile = NotRun
  /\ ExtractIdle

(* One call self._determine_mood(features_mean).                           *)
DetermineMood ==
  /\ Len(moods) < MaxCalls
  /\ moods' = Append(moods, [label |-> _determine_mood(features_mean),
                             after |-> analyses])
  /\ UNCHANGED <<features_mean, analyses, last_mood, profile_vars, extract_vars>>

(* An analysis of another playlist: the analyzer keeps no state of it, the *)
(* label goes to the caller.                                               *)
OtherAnalysis ==
  /\ analyses < MaxBetween
  /\ \E fm \in OtherInputs : last_mood' = _determine_mood(fm)
  /\ analyses' = analyses + 1
  /\ UNCHANGED <<features_mean, moods, profile_vars, extract_vars>>

NextMood == DetermineMood \/ OtherAnalysis

SpecMood == InitMood /\ [][NextMood]_vars

----------------------------------------------------------------------------
(* The Spotify API as the extractor sees it: the tracks it can return in a *)
(* playlist item and the audio features it returns for a track id (None    *)
(* for a track it has no features for).                                    *)

TrackIds == {"t1", "t2", "t3", "t4"}

Catalog ==
  [ t1 |-> [id |-> "t1", name |-> "n1", artist |-> "A",
            duration_ms |-> 180000, popularity |-> 50],
    t2 |-> [id |-> "t2", name |-> "n2", artist |-> "B",
            duration_ms |-> 240000, popularity |-> 70],
    t3 |-> [id |-> "t3", name |-> "n3", artist |-> "A",
            duration_ms |-> 200000, popularity |-> 30],
    t4 |-> [id |-> "t4", name |-> "n4", artist |-> "C",
            duration_ms |-> 180000, popularity |-> 51] ]

AudioFeaturesOf ==
  [ t1 |-> [id |-> "t1", energy |-> 90, danceability |-> 90, valence |-> 90,
            tempo |-> 120],
    t2 |-> [id |-> "t2", energy |-> 50, danceability |-> 40, valence |-> 20],
    t3 |-> None,
    t4 |-> [id |-> "t4", energy |-> 20, acousticness |-> 80, valence |-> 50,
            tempo |-> 90] ]

(* data_extractor.py: the dict get_playlist_tracks builds from an API      *)
(* track object.                                                           *)
track_info(track) ==
  [ id |-> track.id, name |-> track.name, artist |-> track.artist,
    duration_ms |-> track.duration_ms, popularity |-> track.popularity ]

(* data_extractor.py: the recognized features of the features dict af      *)
(* copied onto the track dict.                                             *)
with_features(track, af) ==
  LET keys == {AUDIO_FEATURES[i] : i \in DOMAIN AUDIO_FEATURES} \cap DOMAIN af
  IN  [k \in DOMAIN track \cup keys |-> IF k \in keys THEN af[k] ELSE track[k]]

----------------------------------------------------------------------------
(* The entry points analyze_playlist and generate_report (analyzer.py)     *)
(* over extract_playlist_data (data_extractor.py) and create_spotify_client *)
(* (auth.py).  One action is one call of the Spotify API, with the code    *)
(* that runs from its return (or its exception) up to the next API call or *)
(* to the return of the entry point.                                       *)

(* The playlist name the caller passes.                                    *)
playlist_name == "p"

(* The exception of create_spotify_client, propagated to the caller.       *)
Raised == [kind |-> "Raised"]

Running == [kind |-> "Running"]

(* A playlist item whose track is null.                                    *)
NullTrack == "null"

(* The track ids the API serves in playlist items.                         *)
ItemIds == {"t1", "t2", "t3"}

RECURSIVE SeqsUpTo(_, _)
SeqsUpTo(S, n) ==
  IF n = 0 THEN {<< >>}
  ELSE LET shorter == SeqsUpTo(S, n - 1)
       IN  shorter \cup { Append(q, x) : q \in shorter, x \in S }

(* The pages sp.playlist_tracks / sp.next can return when the playlist has *)
(* room for n more items; the last page the model serves has no next link. *)
TrackPages(n, last) ==
  [ items : SeqsUpTo(ItemIds \cup {NullTrack}, n),
    next : IF last THEN {FALSE} ELSE BOOLEAN ]

(* The pages sp.current_user_playlists / sp.next can return.               *)
PlaylistPages(last) ==
  [ items : { << >>,
              << [name |-> "p", id |-> "id1"] >>,
              << [name |-> "q", id |-> "id2"] >>,
              << [name |-> "q", id |-> "id2"], [name |-> "p", id |-> "id1"] >> },
    next : IF last THEN {FALSE} ELSE BOOLEAN ]

Init ==
  /\ ExtractIdle
  /\ df = None
  /\ profile = NotRun
  /\ features_mean = << >>
  /\ MoodIdle

(* round(x, 2): the nearest hundredth, a tie going to the even one.        *)
round2(x) ==
  IF IsNaN(x) THEN NaN
  ELSE LET lo == (100 * x.n) \div x.d
           twice == 2 * (100 * x.n - lo * x.d)
           k == IF twice > x.d \/ (twice = x.d /\ lo % 2 = 1) THEN lo + 1 ELSE lo
       IN  [n |-> k, d |-> 100]

(* df[['name', 'artist', 'popularity']].head().to_dict('records')          *)
data_sample(d) ==
  LET h == head(d.rows, 5)
  IN  [i \in DOMAIN h |-> [name |-> h[i].name, artist |-> h[i].artist,
                           popularity |-> h[i].popularity]]

(* The report dict of generate_report.                                     *)
report(prof, d) ==
  [ kind |-> "report",
    playlist_name |-> playlist_name,
    summary |-> [ total_tracks |-> prof.track_count,
                  unique_artists |-> prof.unique_artists,
                  avg_duration_minutes |-> round2(prof.avg_duration),
                  avg_popularity |-> round2(prof.avg_popularity),
                  audio_mood |-> prof.audio_mood ],
    top_artists |-> prof.top_artists,
    feature_statistics |-> [mean |-> prof.features_mean, std |-> prof.features_std],
    data_sample |-> data_sample(d) ]

(* The caller invokes analyze_playlist(playlist_name) or                   *)
(* generate_report(playlist_name); either starts with                      *)
(* extract_playlist_data, whose DataExtractor() authenticates first.       *)
Call ==
  /\ pc = "idle"
  /\ runs < MaxRuns
  /\ \E o \in {"analyze_playlist", "generate_report"} :
       /\ op' = o
       /\ stage' = IF o = "generate_report" THEN 1 ELSE 2
  /\ runs' = runs + 1
  /\ pc' = "auth"
  /\ playlists' = << >>
  /\ playlist_id' = "none"
  /\ tracks' = << >>
  /\ pages' = 0
  /\ batch_at' = 0
  /\ audio_features' = << >>
  /\ report_df' = None
  /\ result' = Running
  /\ failed' = {}
  /\ served' = << >>
  /\ calls' = << >>
  /\ df' = None
  /\ profile' = NotRun
  /\ UNCHANGED mood_vars

(* The entry point returns res (or raises, res = Raised); d and prof are   *)
(* the df and the return value of analyze_playlist, if it ran.             *)
Return(res, d, prof) ==
  /\ pc' = "idle"
  /\ result' = res
  /\ df' = d
  /\ profile' = prof
  /\ UNCHANGED <<op, stage, runs, report_df>>

(* extract_playlist_data returns d, with f the API calls that raised in   *)
(* it.  In generate_report's own extraction: None ends the report, a       *)
(* DataFrame is kept and analyze_playlist is called, which extracts again. *)
(* In analyze_playlist: the profile is built, and generate_report wraps it *)
(* with the sample of its own df.                                          *)
extract_playlist_data_returns(d, f) ==
  IF stage = 1
  THEN IF d = None
       THEN /\ Return(None, df, profile)
            /\ failed' = f
       ELSE /\ report_df' = d
            /\ stage' = 2
            /\ pc' = "auth"
            /\ failed' = {}
            /\ UNCHANGED <<op, runs, result, df, profile>>
  ELSE /\ \E prof \in analyze_playlist_results(playlist_name, d) :
            Return(IF op = "analyze_playlist" \/ prof = None THEN prof
                   ELSE report(prof, report_df),
                   d, prof)
       /\ failed' = f

(* auth.py: create_spotify_client, called by DataExtractor.__init__.  A    *)
(* failure of SpotifyOAuth or sp.current_user() is logged and re-raised;   *)
(* nothing between it and the caller of the entry point catches it.        *)
create_spotify_client ==
  /\ pc = "auth"
  /\ \E ok \in BOOLEAN :
       IF ok
       THEN /\ pc' = "playlists"
            /\ pages' = 0
            /\ UNCHANGED <<op, stage, runs, report_df, result, failed, df, profile>>
       ELSE /\ Return(Raised, df, profile)
            /\ failed' = failed \cup {"auth"}
            /\ UNCHANGED <<pages>>
  /\ UNCHANGED <<playlists, playlist_id, tracks, batch_at, audio_features, served,
                 calls, mood_vars>>

(* playlists[playlist['name']] = playlist['id'] for every item in order.   *)
RECURSIVE put_all(_, _)
put_all(dict, items) ==
  IF items = << >> THEN dict
  ELSE put_all([n \in DOMAIN dict \cup {items[1].name} |->
                  IF n = items[1].name THEN items[1].id ELSE dict[n]],
               Tail(items))

(* get_user_playlists returns pl to get_playlist_dataframe, which looks    *)
(* the name up: not found returns None, found goes on to the tracks.  The  *)
(* dict is not read again after the lookup and the model drops it there.   *)
get_user_playlists_returns(pl, f) ==
  /\ playlists' = << >>
  /\ pages' = 0
  /\ IF playlist_name \notin DOMAIN pl
     THEN /\ extract_playlist_data_returns(None, f)
          /\ UNCHANGED <<playlist_id>>
     ELSE /\ playlist_id' = pl[playlist_name]
          /\ pc' = "tracks"
          /\ failed' = f
          /\ UNCHANGED <<op, stage, runs, report_df, result, df, profile>>

(* get_user_playlists: one call of sp.current_user_playlists() (the first  *)
(* page) or sp.next(results).  An exception discards the dict built so     *)
(* far: return {}.                                                         *)
playlists_page(first) ==
  /\ pc = "playlists"
  /\ (pages = 0) = first
  /\ \/ \E page \in PlaylistPages(pages + 1 >= MaxPages) :
          LET pl == put_all(IF first THEN << >> ELSE playlists, page.items)
          IN  IF page.next
              THEN /\ playlists' = pl
                   /\ pages' = pages + 1
                   /\ UNCHANGED <<pc, op, stage, runs, playlist_id, report_df,
                                  result, failed, df, profile>>
              ELSE get_user_playlists_returns(pl, failed)
     \/ get_user_playlists_returns(<< >>, failed \cup {"playlists"})
  /\ UNCHANGED <<tracks, batch_at, audio_features, served, calls, mood_vars>>

current_user_playlists == playlists_page(TRUE)

next_playlists == playlists_page(FALSE)

(* page_tracks with a fault seeded: a null track ends the page.            *)
RECURSIVE page_tracks_until_null(_)
page_tracks_until_null(items) ==
  IF items = << >> \/ items[1] = NullTrack THEN << >>
  ELSE << track_info(Catalog[items[1]]) >> \o page_tracks_until_null(Tail(items))

(* The track dicts of the non-null tracks of a page, in page order.        *)
RECURSIVE page_tracks(_)
page_tracks(items) ==
  IF items = << >> THEN << >>
  ELSE IF items[1] = NullTrack THEN page_tracks(Tail(items))
  ELSE << track_info(Catalog[items[1]]) >> \o page_tracks(Tail(items))

(* get_playlist_dataframe from the return of get_audio_features_batch:     *)
(* the features at position i of the list are copied onto track i.         *)
attach(t, af) ==
  [i \in DOMAIN t |-> IF i <= Len(af) THEN with_features(t[i], af[i]) ELSE t[i]]

(* get_audio_features_batch returns af: the features are copied onto the   *)
(* track dicts and the DataFrame is built and returned.                    *)
get_audio_features_batch_returns(af, f) ==
  /\ audio_features' = af
  /\ tracks' = attach(tracks, af)
  /\ extract_playlist_data_returns(DataFrame(attach(tracks, af), playlist_name), f)

(* get_playlist_tracks returns t to get_playlist_dataframe: an empty list  *)
(* returns None, otherwise the audio features are fetched next.            *)
get_playlist_tracks_returns(t, f) ==
  /\ tracks' = t
  /\ pages' = 0
  /\ IF t = << >>
     THEN /\ extract_playlist_data_returns(None, f)
          /\ UNCHANGED <<batch_at, audio_features>>
     ELSE /\ pc' = "features"
          /\ batch_at' = 0
          /\ audio_features' = << >>
          /\ failed' = f
          /\ UNCHANGED <<op, stage, runs, report_df, result, df, profile>>

(* get_playlist_tracks: one call of sp.playlist_tracks(playlist_id) (the   *)
(* first page) or sp.next(results).  An exception is logged and the list   *)
(* built so far is returned.                                               *)
tracks_page(first) ==
  /\ pc = "tracks"
  /\ (pages = 0) = first
  /\ LET sofar == IF first THEN << >> ELSE tracks
         before == IF first THEN << >> ELSE served
         ended == IF first THEN << >> ELSE calls
     IN  \/ \E page \in TrackPages(MaxItems - Len(sofar), pages + 1 >= MaxPages) :
              LET t == sofar \o page_tracks(page.items)
              IN  /\ served' = before \o SelectSeq(page.items, LAMBDA x : x # NullTrack)
                  /\ calls' = Append(ended, IF page.next THEN "next" ELSE "end")
                  /\ IF page.next
                     THEN /\ tracks' = t
                          /\ pages' = pages + 1
                          /\ UNCHANGED <<pc, op, stage, runs, batch_at, audio_features,
                                         report_df, result, failed, df, profile>>
                     ELSE get_playlist_tracks_returns(t, failed)
         \/ /\ served' = before
            /\ calls' = Append(ended, "raised")
            /\ get_playlist_tracks_returns(sofar, failed \cup {"tracks"})
  /\ UNCHANGED <<playlists, playlist_id, mood_vars>>

playlist_tracks == tracks_page(TRUE)

next_tracks == tracks_page(FALSE)

(* The API limit the extractor batches by.                                 *)
BatchSize == 100

(* get_audio_features_batch: one call of sp.audio_features(batch).  The    *)
(* null entries of the answer are dropped; an exception is logged and the  *)
(* list built so far is returned.  The list of get_playlist_tracks is in   *)
(* use from here on, and the record of its calls is dropped.               *)
audio_features_batch ==
  /\ pc = "features"
  /\ LET track_ids == [i \in DOMAIN tracks |-> tracks[i].id]
         upto == IF batch_at + BatchSize < Len(track_ids)
                 THEN batch_at + BatchSize ELSE Len(track_ids)
         batch == SubSeq(track_ids, batch_at + 1, upto)
         features_batch == [i \in DOMAIN batch |-> AudioFeaturesOf[batch[i]]]
         af == audio_features \o SelectSeq(features_batch, LAMBDA x : x # None)
     IN  \/ IF upto < Len(track_ids)
            THEN /\ audio_features' = af
                 /\ batch_at' = batch_at + BatchSize
                 /\ UNCHANGED <<pc, op, stage, runs, tracks, report_df, result,
                                failed, df, profile>>
            ELSE /\ get_audio_features_batch_returns(af, failed)
                 /\ UNCHANGED <<batch_at>>
         \/ /\ get_audio_features_batch_returns(audio_features,
                                                 failed \cup {"features"})
            /\ UNCHANGED <<batch_at>>
  /\ calls' = << >>
  /\ UNCHANGED <<playlists, playlist_id, pages, served, mood_vars>>

Next ==
  \/ Call
  \/ create_spotify_client
  \/ current_user_playlists
  \/ next_playlists
  \/ playlist_tracks
  \/ next_tracks
  \/ audio_features_batch

Spec == Init /\ [][Next]_vars

(* get_playlist_tracks runs its loop in one thread: once entered, the      *)
(* next call of the API is made, and it returns or raises.                 *)
SpecPaging == Spec /\ WF_vars(playlist_tracks) /\ WF_vars(next_tracks)

----------------------------------------------------------------------------
(* The profile builder on its own: analyze_playlist from the DataFrame on, *)
(* applied to a track collection drawn from three families.                *)

ArtistNames == << "A", "B", "C", "D", "E", "F", "G", "H" >>

RECURSIVE MaxOf(_)
MaxOf(s) ==
  IF s = << >> THEN 0
  ELSE LET m == MaxOf(Tail(s)) IN IF s[1] > m THEN s[1] ELSE m

(* The sequences of n artists up to renaming: a new artist is always the   *)
(* next unused name.                                                       *)
RECURSIVE ArtistSeqs(_)
ArtistSeqs(n) ==
  IF n = 0 THEN {<< >>}
  ELSE UNION { { Append(s, a) : a \in 1..(MaxOf(s) + 1) } : s \in ArtistSeqs(n - 1) }

ArtistTrack(a) ==
  [ id |-> "x", name |-> "x", artist |-> ArtistNames[a],
    duration_ms |-> 180000, popularity |-> 50 ]

(* Collections that differ in their artists only.                          *)
ArtistCollections ==
  UNION { { [i \in DOMAIN s |-> ArtistTrack(s[i])] : s \in ArtistSeqs(n) } :
          n \in 1..MaxArtistTracks }

(* Seven artists with 5, 4, 3, 2, 1, 1 and 1 tracks, the rarest first.     *)
SevenArtists ==
  [i \in 1..17 |->
     ArtistTrack(<<7, 6, 5, 4, 4, 3, 3, 3, 2, 2, 2, 2, 1, 1, 1, 1, 1>>[i])]

FeatureTrack(id) ==
  IF AudioFeaturesOf[id] = None THEN track_info(Catalog[id])
  ELSE with_features(track_info(Catalog[id]), AudioFeaturesOf[id])

(* Collections of catalog tracks, each with the features of its own id.    *)
FeatureCollections ==
  UNION { [1..n -> {FeatureTrack(id) : id \in TrackIds}] : n \in 1..MaxFeatureTracks }

ProfileInputs ==
  { DataFrame(t, "p") :
      t \in ArtistCollections \cup {SevenArtists} \cup FeatureCollections }

InitProfile ==
  /\ df \in ProfileInputs
  /\ profile = NotRun
  /\ features_mean = << >>
  /\ MoodIdle
  /\ ExtractIdle

(* analyze_playlist from the line after df = extract_playlist_data(...).   *)
Analyze ==
  /\ profile = NotRun
  /\ profile' \in analyze_playlist_results(df.playlist_name, df)
  /\ UNCHANGED <<df, mood_vars, extract_vars>>

NextProfile == Analyze

SpecProfile == InitProfile /\ [][NextProfile]_vars

----------------------------------------------------------------------------
(* Claims about the mood classifier, checked under SpecMood.  The labels   *)
(* are the strings of the source; the specification names them in English: *)
(* Energética/Dançante is Energetic/Danceable, Calma/Acústica is           *)
(* Calm/Acoustic, Feliz/Positiva is Happy/Positive, Melancólica/Triste is  *)
(* Melancholic/Sad, Falada/Poética is Spoken/Poetic and Mista/Equilibrada  *)
(* is Mixed/Balanced.                                                      *)

MoodKeys ==
  {"energy", "danceability", "acousticness", "valence", "instrumentalness",
   "speechiness"}

(* The value a rule reads: the mean of the feature, 0.0 for a missing key. *)
FeatureValue(m, k) == IF k \in DOMAIN m THEN m[k] ELSE Num(0)

(* The predicate of rule i of the specification.                           *)
RuleHolds(m, i) ==
  CASE i = 1 -> Gt(FeatureValue(m, "energy"), 70) /\ Gt(FeatureValue(m, "danceability"), 70)
    [] i = 2 -> Lt(FeatureValue(m, "energy"), 30) /\ Gt(FeatureValue(m, "acousticness"), 70)
    [] i = 3 -> Gt(FeatureValue(m, "valence"), 70)
    [] i = 4 -> Lt(FeatureValue(m, "valence"), 30)
    [] i = 5 -> Gt(FeatureValue(m, "instrumentalness"), 70)
    [] i = 6 -> Gt(FeatureValue(m, "speechiness"), 66)

RuleLabel ==
  << "Energética/Dançante", "Calma/Acústica", "Feliz/Positiva",
     "Melancólica/Triste", "Instrumental", "Falada/Poética" >>

MatchingRules(m) == {i \in DOMAIN RuleLabel : RuleHolds(m, i)}

LowestRule(m) ==
  CHOOSE i \in MatchingRules(m) : \A j \in MatchingRules(m) : i <= j

MoodLabels == {RuleLabel[i] : i \in DOMAIN RuleLabel} \cup {"Mista/Equilibrada"}

(* C1: every call of _determine_mood returns the label of the              *)
(* lowest-numbered rule whose predicate is true, and Mista/Equilibrada     *)
(* (Mixed/Balanced) if and only if no predicate is true; a map that        *)
(* satisfies rules 1 and 3 yields Energética/Dançante and the map with     *)
(* every feature at 0.5 yields Mista/Equilibrada.                          *)
C1_FirstMatchingRule ==
  \A c \in DOMAIN moods :
    LET got == moods[c].label
        hit == MatchingRules(features_mean)
    IN  /\ (hit = {}) <=> (got = "Mista/Equilibrada")
        /\ hit # {} => got = RuleLabel[LowestRule(features_mean)]
        /\ (RuleHolds(features_mean, 1) /\ RuleHolds(features_mean, 3))
             => got = "Energética/Dançante"
        /\ features_mean = AllHalf => got = "Mista/Equilibrada"

(* A call on a map that satisfies rule 1 and rule 3 returned rule 1's label. *)
C1_Witness ==
  /\ moods # << >>
  /\ RuleHolds(features_mean, 1) /\ RuleHolds(features_mean, 3)
  /\ moods[1].label = "Energética/Dançante"

(* The map m extended with 0.0 for every classifier key it lacks.          *)
ZeroFilled(m) ==
  [k \in DOMAIN m \cup MoodKeys |-> IF k \in DOMAIN m THEN m[k] ELSE Num(0)]

(* C2: on every map, the empty one included, _determine_mood returns a     *)
(* label, and it is the label it returns on the map extended with 0.0 for  *)
(* each of the six classifier keys the map lacks.                          *)
C2_MissingKeyIsZero ==
  \A c \in DOMAIN moods :
    /\ moods[c].label \in STRING
    /\ moods[c].label = _determine_mood(ZeroFilled(features_mean))

(* A call on the empty map returned: with valence read as 0.0, rule 4.     *)
C2_Witness ==
  /\ DOMAIN features_mean = {}
  /\ moods # << >>
  /\ moods[1].label = "Melancólica/Triste"

----------------------------------------------------------------------------
(* Claims about the profile builder, checked under SpecProfile.            *)

Features == {AUDIO_FEATURES[i] : i \in DOMAIN AUDIO_FEATURES}

(* The rows of d whose track carries a value for feature f.                *)
Having(d, f) == {i \in DOMAIN d.rows : f \in DOMAIN d.rows[i]}

RECURSIVE SumOver(_, _, _)
SumOver(d, f, I) ==
  IF I = {} THEN 0
  ELSE LET i == CHOOSE j \in I : TRUE
       IN  d.rows[i][f] + SumOver(d, f, I \ {i})

(* c^2 times the sum over the rows I of (x - S/c)^2.                       *)
RECURSIVE SquaresOver(_, _, _, _, _)
SquaresOver(d, f, I, c, S) ==
  IF I = {} THEN 0
  ELSE LET i == CHOOSE j \in I : TRUE
       IN  (c * d.rows[i][f] - S) * (c * d.rows[i][f] - S)
           + SquaresOver(d, f, I \ {i}, c, S)

IsProfile(x) == x.kind = "PlaylistProfile"

(* C8: the profile has a mean and a standard deviation for exactly the     *)
(* recognized features that some track carries, and each is computed over  *)
(* the tracks that carry the feature alone: the mean is their sum over     *)
(* their number, and the deviation is undefined or a root according to     *)
(* their number, a track without the feature counting in neither.          *)
C8_MissingExcluded ==
  IsProfile(profile) =>
    /\ DOMAIN profile.features_mean = {f \in Features : Having(df, f) # {}}
    /\ DOMAIN profile.features_std = DOMAIN profile.features_mean
    /\ \A f \in DOMAIN profile.features_mean :
         LET c == Cardinality(Having(df, f))
             m == profile.features_mean[f]
             sd == profile.features_std[f]
         IN  /\ ~IsNaN(m)
             /\ m.n * c = SumOver(df, f, Having(df, f)) * m.d
             /\ IsNaN(sd) <=> c = 1
             /\ ~IsNaN(sd) =>
                  sd.sqrt_of.n * c * c * (c - 1)
                    = SquaresOver(df, f, Having(df, f), c, SumOver(df, f, Having(df, f)))
                      * sd.sqrt_of.d

(* A profile of three tracks of which one lacks tempo: the mean tempo is   *)
(* the mean of the other two, (120 + 90) / 2 = 105 BPM.                    *)
C8_Witness ==
  /\ IsProfile(profile)
  /\ Len(df.rows) = 3
  /\ Cardinality(Having(df, "tempo")) = 2
  /\ Cardinality(Having(df, "energy")) = 3
  /\ profile.features_mean["tempo"] = [n |-> 210, d |-> 2]

(* The (artist, count) pairs of the profile's top_artists, in order.       *)
ArtistCol == Column(df, "artist")

Artists == Values(ArtistCol)

Occurrences(a) == Cardinality({i \in DOMAIN ArtistCol : ArtistCol[i] = a})

FirstIndex(a) ==
  CHOOSE i \in DOMAIN ArtistCol :
    ArtistCol[i] = a /\ \A j \in DOMAIN ArtistCol : ArtistCol[j] = a => i <= j

Listed(top) == {top[i][1] : i \in DOMAIN top}

(* top has min(5, distinct artists) entries, lists no artist twice, gives  *)
(* each its number of occurrences, is ordered by non-increasing count and  *)
(* omits no artist with more occurrences than one it lists.                *)
TopByCount(top) ==
  /\ Len(top) = (IF Cardinality(Artists) < 5 THEN Cardinality(Artists) ELSE 5)
  /\ \A i \in DOMAIN top : top[i][1] \in Artists /\ top[i][2] = Occurrences(top[i][1])
  /\ \A i, j \in DOMAIN top : i < j => top[i][1] # top[j][1] /\ top[i][2] >= top[j][2]
  /\ \A a \in Artists \ Listed(top) : \A i \in DOMAIN top : Occurrences(a) <= top[i][2]

(* Among equal counts the artist met first comes first, in the list and at *)
(* the cut-off.                                                            *)
TiesFirstEncountered(top) ==
  /\ \A i, j \in DOMAIN top :
       (i < j /\ top[i][2] = top[j][2]) => FirstIndex(top[i][1]) < FirstIndex(top[j][1])
  /\ \A a \in Artists \ Listed(top) : \A i \in DOMAIN top :
       Occurrences(a) = top[i][2] => FirstIndex(top[i][1]) < FirstIndex(a)

(* C9 as stated: top_artists is the top five by count with ties in         *)
(* first-encountered order.                                                *)
C9_Original ==
  IsProfile(profile) =>
    TopByCount(profile.top_artists) /\ TiesFirstEncountered(profile.top_artists)

(* C9, amended: top_artists has min(5, distinct artists) entries, each     *)
(* with the artist's number of occurrences, ordered by non-increasing      *)
(* count and omitting no artist with a higher count than a listed one; the *)
(* order and the selection among artists of equal count are not fixed.     *)
C9_TopFiveByCount ==
  IsProfile(profile) => TopByCount(profile.top_artists)

(* The profile of the seven artists with 5, 4, 3, 2, 1, 1, 1 tracks: five  *)
(* entries, the artist with five tracks first.                             *)
C9_Witness ==
  /\ IsProfile(profile)
  /\ Cardinality(Artists) = 7
  /\ Len(profile.top_artists) = 5
  /\ profile.top_artists[1] = <<"A", 5>>
  /\ profile.top_artists[4] = <<"D", 2>>

(* C10: a feature observed on exactly one track has the undefined value    *)
(* NaN as its standard deviation, which is not the value 0, and the        *)
(* profile is built all the same; with c >= 2 observed values the          *)
(* deviation is the root of the squared deviations from the mean summed    *)
(* and divided by c - 1.                                                   *)
C10_SampleStd ==
  /\ (profile # NotRun /\ df # None /\ ~empty(df)) => IsProfile(profile)
  /\ IsProfile(profile) =>
       \A f \in Features :
         LET I == Having(df, f)
             c == Cardinality(I)
         IN  /\ c = 1 => /\ profile.features_std[f] = NaN
                          /\ profile.features_std[f] # Sqrt(Num(0))
             /\ c >= 2 =>
                  LET q == profile.features_std[f].sqrt_of
                  IN  q.n * c * c * (c - 1)
                        = SquaresOver(df, f, I, c, SumOver(df, f, I)) * q.d

(* A profile of two tracks with one acousticness value and two tempo       *)
(* values, 120 and 90 BPM: the deviation of acousticness is NaN and the    *)
(* squared deviation of tempo is (15^2 + 15^2) / 1 = 450 BPM^2.            *)
C10_Witness ==
  /\ IsProfile(profile)
  /\ Cardinality(Having(df, "acousticness")) = 1
  /\ profile.features_std["acousticness"] = NaN
  /\ Cardinality(Having(df, "tempo")) = 2
  /\ profile.features_std["tempo"].sqrt_of.n * 1
       = 450 * profile.features_std["tempo"].sqrt_of.d

(* The duration_ms of every row of d, summed.                              *)
RECURSIVE DurationSum(_, _)
DurationSum(d, i) ==
  IF i = 0 THEN 0 ELSE d.rows[i]["duration_ms"] + DurationSum(d, i - 1)

----------------------------------------------------------------------------
(* Claims about the entry points, checked under Spec.                      *)

(* analyze_playlist has returned (to the caller or to generate_report).    *)
Analyzed == pc = "idle" /\ profile # NotRun

(* C4: when the track collection analyze_playlist obtains is absent or     *)
(* empty it returns None, and a profile it returns has track_count >= 1    *)
(* and comes from a non-empty collection.                                  *)
C4_NoDataIsAbsent ==
  Analyzed =>
    /\ (df = None \/ empty(df)) => profile = None
    /\ tracks = << >> => profile = None
    /\ IsProfile(profile) =>
         /\ profile.track_count >= 1
         /\ df # None /\ df.rows # << >>

(* A playlist that was found and listed without any failure and holds no   *)
(* track: the analysis returned None.                                      *)
C4_Witness ==
  /\ Analyzed
  /\ failed = {}
  /\ playlist_id = "id1"
  /\ tracks = << >>
  /\ df = None
  /\ profile = None

(* C5: when an API call made while listing the playlists or while paging   *)
(* through the tracks raised, analyze_playlist returns None.               *)
C5_FetchFailureIsAbsent ==
  (Analyzed /\ failed \cap {"playlists", "tracks"} # {}) => profile = None

(* C6: every call of analyze_playlist or generate_report returns a result  *)
(* or None to its caller: no exception propagates.                         *)
C6_NothingPropagates == result # Raised

(* C7: the track_count of a returned profile is the number of tracks of    *)
(* the collection, which holds every non-null track the API served, each   *)
(* once, whether or not it has audio features.                             *)
C7_TrackCountExact ==
  (Analyzed /\ IsProfile(profile)) =>
    /\ profile.track_count = Len(df.rows)
    /\ profile.track_count = Len(served)
    /\ \A i \in DOMAIN served : df.rows[i].id = served[i]

(* A profile of two tracks of which one has no audio features.             *)
C7_Witness ==
  /\ Analyzed
  /\ IsProfile(profile)
  /\ served = << "t1", "t3" >>
  /\ "energy" \notin DOMAIN df.rows[2]
  /\ profile.track_count = 2

(* generate_report has returned a report to its caller.                    *)
Reported == pc = "idle" /\ result.kind = "report"

(* The smaller of 5 and n.                                                  *)
Min5(n) == IF n < 5 THEN n ELSE 5

(* C12: the data_sample of a returned report is the first                  *)
(* min(5, total_tracks) tracks, in order, of the collection df from which  *)
(* total_tracks, unique_artists, top_artists and the feature statistics    *)
(* of the report were computed.                                            *)
C12_SampleOfAnalyzedSnapshot ==
  Reported =>
    /\ result.summary.total_tracks = Len(df.rows)
    /\ Len(result.data_sample) = Min5(result.summary.total_tracks)
    /\ \A i \in DOMAIN result.data_sample :
         /\ result.data_sample[i].name = df.rows[i].name
         /\ result.data_sample[i].artist = df.rows[i].artist
         /\ result.data_sample[i].popularity = df.rows[i].popularity

(* C13: in a track collection get_playlist_dataframe built, every audio    *)
(* feature value on a track is the value the API returned for that         *)
(* track's own identifier, also when the API returned a null entry for     *)
(* another track of the batch.                                             *)
C13_FeaturesOfOwnTrack ==
  df.kind = "DataFrame" =>
    \A i \in DOMAIN df.rows :
      \A f \in Features \cap DOMAIN df.rows[i] :
        LET own == AudioFeaturesOf[df.rows[i].id]
        IN  /\ own # None
            /\ f \in DOMAIN own
            /\ df.rows[i][f] = own[f]

(* The ids of the track dicts of t, in order.                              *)
IdsOf(t) == [i \in DOMAIN t |-> t[i].id]

(* All the calls before the last one ended with a next link.               *)
NextUntilLast == \A i \in 1..(Len(calls) - 1) : calls[i] = "next"

(* C14: get_playlist_tracks fetches a further page exactly after a page    *)
(* with a next link and stops at the first page without one; when no call  *)
(* raised, the list it returns holds the non-null tracks of all the pages  *)
(* served, each once, in page order and then item order; and the loop of   *)
(* a listing whose chain of next links is finite terminates.               *)
C14_PagingComplete ==
  /\ [](/\ (pc = "tracks" /\ pages > 0) =>
            /\ Len(calls) = pages
            /\ \A i \in DOMAIN calls : calls[i] = "next"
            /\ IdsOf(tracks) = served
        /\ (pc # "tracks" /\ calls # << >>) =>
            /\ calls[Len(calls)] \in {"end", "raised"}
            /\ NextUntilLast
            /\ calls[Len(calls)] = "end" => IdsOf(tracks) = served)
  /\ (pc = "tracks") ~> (pc # "tracks")

(* A listing of two pages, <<null, t2>> with a next link and <<t1>>         *)
(* without, has returned <<t2, t1>>.                                        *)
C14_Witness ==
  /\ pc = "features"
  /\ calls = << "next", "end" >>
  /\ served = << "t2", "t1" >>
  /\ IdsOf(tracks) = << "t2", "t1" >>

====
